---- MODULE Spec2Model ----
(***************************************************************************)
(* Search orchestration and multi-source discovery of the chatbot agent.   *)
(*                                                                         *)
(*   SpecEngine : SearchService.search_sns_content, one call, with the     *)
(*                fetches of the worker pool collected in completion order *)
(*   Spec       : SearchOrchestrator over several turns (analyze_question, *)
(*                execute_search with its retry wrappers), the discovery   *)
(*                engine run as one step built from the same operators     *)
(*                                                                         *)
(* Strings of the program are modelled by short ASCII tokens; a formatted  *)
(* text is the sequence of its parts, "" is the empty sequence <<>>.       *)
(***************************************************************************)
EXTENDS Integers, Sequences, FiniteSets, TLC

\* ------------------------------------------------------------------ bounds
\* number of fetches of one engine call that return something other than
\* an empty list (a hit, a transport error or an exception)
MaxEvents == 2
\* number of stored chat messages / turns kept in the session
MaxMessages == 2
\* largest max_attempts a wrapper of retry_on_error is built with
MaxRetryAttempts == 3
\* chat inputs handled by run_app, and parts a response is split into
MaxTurns == 2
MaxParts == 2
\* conversation turns the session stores
MaxStoredTurns == 3
\* candidates one fetch of SnsSearchService returns
MaxCandidates == 1

None == "None"

\* ------------------------------------------------------- time windows
\* search_sns_content: time_ranges, in the order of the list
time_ranges ==
  << [tbs |-> "qdr:m3", name |-> "recent_3_months"],
     [tbs |-> "qdr:m6", name |-> "recent_6_months"],
     [tbs |-> "qdr:y",  name |-> "recent_1_year"],
     [tbs |-> None,     name |-> "all_time"] >>

\* _sort_by_recency: time_range_order and get_priority (default 999)
get_priority(candidate) ==
  CASE candidate.time_range_priority = "recent_3_months" -> 0
    [] candidate.time_range_priority = "recent_6_months" -> 1
    [] candidate.time_range_priority = "recent_1_year"   -> 2
    [] candidate.time_range_priority = "all_time"        -> 3
    [] OTHER -> 999

\* ------------------------------------------------------- futures
\* the futures list of _search_all_time_ranges_parallel, in submission
\* order: for each time range first the Google Images fetch, then the
\* YouTube Direct fetch
Futures == 1 .. (2 * Len(time_ranges))

FutureWindow(i) == (i + 1) \div 2

FutureProvider(i) == IF i % 2 = 1 THEN "google_images" ELSE "youtube_api_v3"

FuturePeriod(i) == time_ranges[FutureWindow(i)].name

\* ------------------------------------------------------- provider data
\* urls: one video-platform watch url, one social-post url
Urls == {"yt1", "ig1"}

\* titles: how the relevance model judges them is RelevanceModel
Titles == {"on_topic", "off_topic"}

\* link shapes accepted by _search_google_images
PlatformOf(url) == IF url = "ig1" THEN "instagram" ELSE "youtube"

\* the url and title of the hit a provider gives after transient failures
TransientOutcome == [kind |-> "transient", url |-> "yt1", title |-> "on_topic"]

\* the thumbnail a provider sends with a hit: the thumbnail of an image
\* result, snippet.thumbnails.high.url of a video item
ThumbnailOf(url, source) ==
  CASE source = "google_images" /\ url = "ig1" -> "ig1_image_thumbnail"
    [] source = "google_images" -> "yt1_image_thumbnail"
    [] OTHER -> "yt1_high_thumbnail"

Pending == [kind |-> "pending", url |-> "-", title |-> "-"]

EmptyOutcome == [kind |-> "empty", url |-> "-", title |-> "-"]

\* what the provider of one fetch does: return nothing, return one accepted
\* hit, fail inside the client's try block on every request, fail there on
\* the first two requests and return a hit from the third on, or let an
\* exception escape the submitted callable
Outcomes(provider) ==
  {EmptyOutcome,
   [kind |-> "error", url |-> "-", title |-> "-"],
   TransientOutcome,
   [kind |-> "raise", url |-> "-", title |-> "-"]}
  \cup { [kind |-> "hit", url |-> u, title |-> t] :
           u \in (IF provider = "google_images" THEN Urls ELSE {"yt1"}),
           t \in Titles }

IsEvent(outcome) == outcome.kind \in {"hit", "error", "transient", "raise"}

\* number of requests.get calls one fetch makes
requests_per_fetch == 1

\* what request number n of a fetch gets from the provider
ProviderAnswer(outcome, n) ==
  IF outcome.kind = "transient"
  THEN IF n <= 2 THEN [kind |-> "error", url |-> "-", title |-> "-"]
       ELSE [kind |-> "hit", url |-> outcome.url, title |-> outcome.title]
  ELSE outcome

\* the answer to the last request the fetch makes
LastAnswer(outcome) == ProviderAnswer(outcome, requests_per_fetch)

\* _search_google_images: the accepted hits, [] on any exception
search_google_images(outcome) ==
  IF LastAnswer(outcome).kind = "hit"
  THEN << [platform |-> PlatformOf(LastAnswer(outcome).url),
           url |-> LastAnswer(outcome).url,
           thumbnail |-> ThumbnailOf(LastAnswer(outcome).url, "google_images"),
           title |-> LastAnswer(outcome).title, source |-> "google_images"] >>
  ELSE << >>

\* _search_youtube_direct: the items with a videoId, [] on any exception
search_youtube_direct(outcome) ==
  IF LastAnswer(outcome).kind = "hit"
  THEN << [platform |-> "youtube", url |-> LastAnswer(outcome).url,
           thumbnail |-> ThumbnailOf(LastAnswer(outcome).url, "youtube_api_v3"),
           title |-> LastAnswer(outcome).title, source |-> "youtube_api_v3"] >>
  ELSE << >>

\* _search_google_images_with_metadata / _search_youtube_direct_with_metadata
with_metadata(candidates, period_name) ==
  [k \in DOMAIN candidates |->
     [platform |-> candidates[k].platform, url |-> candidates[k].url,
      thumbnail |-> candidates[k].thumbnail,
      title |-> candidates[k].title, source |-> candidates[k].source,
      time_range_priority |-> period_name]]

\* the value future.result() gives for future i (when it does not raise)
FutureResult(i, outcome) ==
  with_metadata(IF FutureProvider(i) = "google_images"
                THEN search_google_images(outcome)
                ELSE search_youtube_direct(outcome),
                FuturePeriod(i))

\* one iteration of the as_completed loop: extend, or log and continue
CollectNoIsolation(all, i, outcome) ==
  IF outcome.kind = "raise" THEN << >> ELSE all \o FutureResult(i, outcome)

Collect(all, i, outcome) ==
  IF outcome.kind = "raise" THEN all ELSE all \o FutureResult(i, outcome)

\* ------------------------------------------------------- dedup
RECURSIVE Reverse(_)
Reverse(s) == IF s = << >> THEN << >> ELSE Append(Reverse(Tail(s)), Head(s))

RECURSIVE DedupLoop(_, _, _, _)
DedupLoop(all, k, seen_urls, unique_candidates) ==
  IF k > Len(all) THEN unique_candidates
  ELSE IF all[k].url # "" /\ all[k].url \notin seen_urls
       THEN DedupLoop(all, k + 1, seen_urls \cup {all[k].url},
                      Append(unique_candidates, all[k]))
       ELSE DedupLoop(all, k + 1, seen_urls, unique_candidates)

RemoveDuplicateUrlsNone(all) == all

RemoveDuplicateUrlsKeepLast(all) ==
  Reverse(DedupLoop(Reverse(all), 1, {}, << >>))

\* _search_all_time_ranges_parallel, the seen_urls loop
RemoveDuplicateUrls(all) == DedupLoop(all, 1, {}, << >>)

\* ------------------------------------------------------- ranking
\* stable insertion: behind every element whose key is not larger
RECURSIVE InsertStable(_, _)
InsertStable(sorted, c) ==
  IF sorted = << >> THEN << c >>
  ELSE IF get_priority(sorted[Len(sorted)]) <= get_priority(c)
       THEN Append(sorted, c)
       ELSE Append(InsertStable(SubSeq(sorted, 1, Len(sorted) - 1), c),
                   sorted[Len(sorted)])

RECURSIVE SortedPrefix(_, _)
SortedPrefix(candidates, k) ==
  IF k = 0 THEN << >>
  ELSE InsertStable(SortedPrefix(candidates, k - 1), candidates[k])

sort_by_recency_unstable(candidates) ==
  Reverse(SortedPrefix(Reverse(candidates), Len(candidates)))

\* _sort_by_recency: sorted(candidates, key=get_priority), a stable sort
sort_by_recency(candidates) == SortedPrefix(candidates, Len(candidates))

\* the user messages: an empty one and a question
Questions == {"", "uq"}

\* ------------------------------------------------------- relevance check
\* the is_relevant the relevance model answers for a title
RelevanceModel(title) == IF title = "on_topic" THEN "true" ELSE "false"

\* what one chat_model.invoke of the agent can do: answer with the JSON of
\* a judgment, answer with text that is not JSON, or raise
ModelReplies(title) == {RelevanceModel(title), "malformed", "raise"}

\* the empty dict
EmptyDict == [k \in {} |-> FALSE]

\* parse_json_from_response: the dict of the JSON text, {} when json.loads
\* fails on it
parse_json_from_response(response_text) ==
  IF response_text \in {"true", "false"}
  THEN [is_relevant |-> (response_text = "true")]
  ELSE EmptyDict

\* result.get("is_relevant", False)
get_is_relevant(result) ==
  IF result = EmptyDict THEN FALSE ELSE result.is_relevant

\* SNSRelevanceCheckAgent.act: True without a model call when an argument
\* is empty, True when the model call raised, otherwise the is_relevant of
\* the parsed answer
relevance_act(question, sns_title, platform, reply) ==
  IF question = "" \/ sns_title = "" \/ platform = "" THEN TRUE
  ELSE IF reply = "raise" THEN TRUE
  ELSE get_is_relevant(parse_json_from_response(reply))

\* {"found": False}: the dict has no other key
NotFound ==
  [found |-> FALSE, platform |-> "-", url |-> "-", thumbnail |-> "-",
   title |-> "-"]

\* the dict of a returned candidate
FoundWithoutThumbnail(candidate) ==
  [found |-> TRUE, platform |-> candidate.platform, url |-> candidate.url,
   thumbnail |-> "", title |-> candidate.title]

Found(candidate) ==
  [found |-> TRUE, platform |-> candidate.platform, url |-> candidate.url,
   thumbnail |-> candidate.thumbnail, title |-> candidate.title]

\* ------------------------------------------------------- engine state
VARIABLES
  query,             \* search_sns_content: query
  user_question,     \* search_sns_content: user_question
  relevance_checker, \* TRUE iff a relevance_checker was passed
  epc,               \* where the call is
  responses,         \* what each future's provider request did (Pending: not yet)
  all_candidates,    \* _search_all_time_ranges_parallel: all_candidates
  unique_candidates, \* the list _search_all_time_ranges_parallel returned
  sorted_candidates, \* search_sns_content: sorted_candidates
  idx,               \* position of the validation loop (1-based)
  checks,            \* positions handed to relevance_checker.act, in call order
  sns_result,        \* the dict search_sns_content returned
  submitted          \* number of futures handed to the executor so far

evars == << query, user_question, relevance_checker, epc, responses,
            all_candidates, unique_candidates, sorted_candidates, idx,
            checks, sns_result, submitted >>

\* ------------------------------------------------------- orchestrator state
VARIABLES
  engine_runs,      \* per user question, what a search_sns_content call can give
  search_service,   \* "SearchService", or None when there is no SerpAPI key
  messages,         \* session messages: role, and whether sns_content is attached
  question,         \* the user message of the turn
  analysis_result,  \* SearchOrchestrator._analysis_result
  opc,              \* where execute_search is
  outer_attempt,    \* attempt of the retry wrapper of _search_sns_content_with_fallback
  inner_attempt,    \* attempt of the retry wrapper of _search_general_context
  add_term_instruction, \* argument of the running _search_general_context
  via_fallback,     \* the running _search_general_context was called by the fallback
  calls,            \* per execute_search call: web, engine, provider, relevance, sleep
  last_web,         \* what the last web lookup of the call did
  last_sns,         \* what the last search_sns_content of the call returned
  strategy_exception, \* the dispatched strategy ended in an exception
  exec_result,      \* what execute_search gave its caller
  classifier_calls, \* analyze_question: model calls made, and how many failed
  classifier_outputs, \* what the classifiers gave the last analyze_question,
                      \* and whether that call replaced another analysis
  shared_topics_list \* st.session_state.shared_topics_list; add_shared_topic,
                     \* its only writer, has no caller

ovars == << engine_runs, search_service, messages, question, analysis_result, opc,
            outer_attempt, inner_attempt, add_term_instruction, via_fallback,
            calls, last_web, last_sns, strategy_exception, exec_result,
            classifier_calls, classifier_outputs, shared_topics_list >>

\* ------------------------------------------------------- retry wrapper state
VARIABLES
  wrapper_max_attempts, \* retry_on_error: max_attempts
  wrapper_delay,        \* retry_on_error: delay
  wrapper_attempt,      \* wrapper: attempt
  wpc,                  \* where the wrapper is
  wrapper_trace,        \* invocations of func and time.sleep calls, in order
  wrapper_result        \* what the wrapper gave its caller

rvars == << wrapper_max_attempts, wrapper_delay, wrapper_attempt, wpc,
            wrapper_trace, wrapper_result >>

\* ------------------------------------------------------- run_app state
VARIABLES
  apc,                  \* where run_app is in the handling of a chat input
  turn,                 \* number of chat inputs so far
  app_messages,         \* st.session_state.messages, each with the facts of
                        \* the turn at the moment it was stored
  app_sns_content,      \* run_app: sns_content
  app_requests_content, \* run_app: requests_content ("unbound": not assigned)
  retry_count,          \* run_app: retry_count
  parts,                \* len(split_parts)
  part_idx,             \* the i of the loop over split_parts
  displayed,            \* the link of the found post was shown in this turn
  invocations,          \* conversation.invoke calls of this turn
  last_outcome          \* how the last iteration of the while loop ended

avars == << apc, turn, app_messages, app_sns_content, app_requests_content,
            retry_count, parts, part_idx, displayed, invocations,
            last_outcome >>

\* ------------------------------------------------------- session state
VARIABLES
  conversation_turns, \* st.session_state.conversation_turns
  recent_call         \* the last get_recent_conversation_turns call: its
                      \* count, the turns stored then, and what it returned

svars == << conversation_turns, recent_call >>

\* ------------------------------------------------------- SnsSearchService state
VARIABLES
  seq_pc,          \* where SnsSearchService._search_sns_content is
  seq_question,    \* _search_sns_content: user_question
  seq_youtube_key, \* TRUE iff self.youtube_api_key is set
  seq_window,      \* position of the loop over time_ranges (1-based)
  seq_futures,     \* per future: not submitted, running or done, the list
                   \* its fetch returned, and whether as_completed yielded it
  seq_judged,      \* the relevance_checker.act calls, in call order
  seq_result       \* the dict _search_sns_content returned

qvars == << seq_pc, seq_question, seq_youtube_key, seq_window, seq_futures,
            seq_judged, seq_result >>

\* the state of the session manager and of SnsSearchService
zvars == << svars, qvars >>

\* the state of the parts that are not running
xvars == << rvars, avars, zvars >>

vars == << evars, ovars, xvars >>

EventsSoFar == Cardinality({i \in Futures : IsEvent(responses[i])})

\* the arguments user_question and relevance_checker are drawn where the
\* call leaves _search_all_time_ranges_parallel, in no_candidates and
\* rank_candidates
EngineInit ==
  /\ query \in {None, "q"}
  /\ user_question = ""
  /\ relevance_checker = FALSE
  /\ epc = "start"
  /\ responses = [i \in Futures |-> Pending]
  /\ all_candidates = << >>
  /\ unique_candidates = << >>
  /\ sorted_candidates = << >>
  /\ idx = 1
  /\ checks = << >>
  /\ sns_result = NotFound
  /\ submitted = 0

\* search_sns_content up to the end of the submit loop: _clean_youtube_query
\* raises on a query that is None, otherwise all futures are submitted
clean_youtube_query_raises ==
  /\ epc = "start"
  /\ query = None
  /\ epc' = "raised"
  /\ UNCHANGED << query, user_question, relevance_checker, responses,
                  all_candidates, unique_candidates, sorted_candidates, idx,
                  checks, sns_result >>
  /\ UNCHANGED << submitted, ovars, xvars >>

\* one executor.submit of the submit loop: future number submitted + 1
submit ==
  /\ epc = "start"
  /\ query # None
  /\ submitted < Cardinality(Futures)
  /\ submitted' = submitted + 1
  /\ UNCHANGED << query, user_question, relevance_checker, epc, responses,
                  all_candidates, unique_candidates, sorted_candidates, idx,
                  checks, sns_result >>
  /\ UNCHANGED << ovars, xvars >>

\* the submit loop is left when it has gone through all search_tasks
SubmitLoopLeftEarly(n) == n >= 1

SubmitLoopLeft(n) == n = Cardinality(Futures)

\* the submit loop is over, as_completed(futures) is entered
submit_all ==
  /\ epc = "start"
  /\ query # None
  /\ SubmitLoopLeft(submitted)
  /\ epc' = "gather"
  /\ UNCHANGED << query, user_question, relevance_checker, responses,
                  all_candidates, unique_candidates, sorted_candidates, idx,
                  checks, sns_result >>
  /\ UNCHANGED << submitted, ovars, xvars >>

\* as_completed yields future i next: its request has done `outcome`
future_completed(i) ==
  /\ epc = "gather"
  /\ i <= submitted
  /\ responses[i] = Pending
  /\ \E outcome \in Outcomes(FutureProvider(i)) :
       /\ IsEvent(outcome) => EventsSoFar < MaxEvents
       /\ responses' = [responses EXCEPT ![i] = outcome]
       /\ all_candidates' = Collect(all_candidates, i, outcome)
  /\ UNCHANGED << query, user_question, relevance_checker, epc,
                  unique_candidates, sorted_candidates, idx, checks,
                  sns_result >>
  /\ UNCHANGED << submitted, ovars, xvars >>

\* as_completed is exhausted and the with block of the pool is left
GatherDoneAtFirstResult == \E i \in Futures : responses[i] # Pending

GatherDone == \A i \in 1 .. submitted : responses[i] # Pending

\* the pool is left and the duplicates are removed
return_unique_candidates ==
  /\ epc = "gather"
  /\ GatherDone
  /\ unique_candidates' = RemoveDuplicateUrls(all_candidates)
  /\ epc' = "merged"
  /\ UNCHANGED << query, user_question, relevance_checker, responses,
                  all_candidates, sorted_candidates, idx, checks, sns_result >>
  /\ UNCHANGED << submitted, ovars, xvars >>

\* if not all_candidates: return {"found": False}
no_candidates ==
  /\ epc = "merged"
  /\ unique_candidates = << >>
  /\ sns_result' = NotFound
  /\ epc' = "returned"
  /\ user_question' \in Questions
  /\ relevance_checker' \in BOOLEAN
  /\ UNCHANGED << query, responses,
                  all_candidates, unique_candidates, sorted_candidates, idx,
                  checks >>
  /\ UNCHANGED << submitted, ovars, xvars >>

rank_candidates ==
  /\ epc = "merged"
  /\ unique_candidates # << >>
  /\ sorted_candidates' = sort_by_recency(unique_candidates)
  /\ idx' = 1
  /\ epc' = "validate"
  /\ user_question' \in Questions
  /\ relevance_checker' \in BOOLEAN
  /\ UNCHANGED << query, responses, all_candidates, unique_candidates,
                  checks, sns_result >>
  /\ UNCHANGED << submitted, ovars, xvars >>

\* `if relevance_checker and user_question`: the candidate is validated
validates_with_any_question(checker, uq) == checker

validates(checker, uq) == checker /\ uq # ""

\* one iteration of the validation loop that calls relevance_checker.act
NextEpcNoShortCircuit(is_relevant) == "validate"

NextEpc(is_relevant) == IF is_relevant THEN "returned" ELSE "validate"

check_candidate ==
  /\ epc = "validate"
  /\ idx <= Len(sorted_candidates)
  /\ validates(relevance_checker, user_question)
  /\ \E reply \in ModelReplies(sorted_candidates[idx].title) :
       LET candidate == sorted_candidates[idx]
           is_relevant == relevance_act(user_question, candidate.title,
                                        candidate.platform, reply)
       IN /\ checks' = Append(checks, [position |-> idx, reply |-> reply,
                                       is_relevant |-> is_relevant])
          /\ sns_result' = IF is_relevant THEN Found(candidate) ELSE sns_result
          /\ epc' = NextEpc(is_relevant)
          /\ idx' = idx + 1
  /\ UNCHANGED << query, user_question, relevance_checker, responses,
                  all_candidates, unique_candidates, sorted_candidates >>
  /\ UNCHANGED << submitted, ovars, xvars >>

\* the else branch: no checker or no question, the candidate is returned
return_unchecked ==
  /\ epc = "validate"
  /\ idx <= Len(sorted_candidates)
  /\ ~validates(relevance_checker, user_question)
  /\ sns_result' = Found(sorted_candidates[idx])
  /\ epc' = "returned"
  /\ UNCHANGED << query, user_question, relevance_checker, responses,
                  all_candidates, unique_candidates, sorted_candidates, idx,
                  checks >>
  /\ UNCHANGED << submitted, ovars, xvars >>

\* the loop ran out of candidates
no_relevant_candidate ==
  /\ epc = "validate"
  /\ idx > Len(sorted_candidates)
  /\ sns_result' = NotFound
  /\ epc' = "returned"
  /\ UNCHANGED << query, user_question, relevance_checker, responses,
                  all_candidates, unique_candidates, sorted_candidates, idx,
                  checks >>
  /\ UNCHANGED << submitted, ovars, xvars >>

\* ------------------------------------------------------- web lookup
\* what one search_web + extract_summary can do: an exception that is not
\* a RequestException escapes ("raise"); a RequestException becomes an
\* {"error": ...} result; otherwise the SerpAPI answer has an answer box,
\* a knowledge graph, organic results or none of them
WebOutcomes == {"raise", "error", "answer_box", "knowledge_graph",
                "organic_results", "no_results"}

\* extract_summary of the result search_web returned
extract_summary(web) ==
  CASE web = "error"           -> "summary_search_error"
    [] web = "answer_box"      -> "summary_answer"
    [] web = "knowledge_graph" -> "summary_knowledge_graph"
    [] web = "organic_results" -> "summary_snippets"
    [] OTHER                   -> "summary_no_results"

\* get_formatted_date(datetime.now())
current_date == "today"

\* _search_general_context: the search_context text
general_context_without_instruction(search_term, web, with_instruction) ==
  << "search_info", search_term, extract_summary(web), "date_note", current_date >>

general_context(search_term, web, with_instruction) ==
  << "search_info", search_term, extract_summary(web), "date_note", current_date >>
  \o (IF with_instruction THEN << "instruction", search_term >> ELSE << >>)

\* _search_sns_content_with_fallback: the search_context text of a found post
sns_context(sns_content) ==
  << (IF sns_content.platform = "instagram" THEN "Instagram" ELSE "YouTube"),
     "post_info", sns_content.title, "date_note", current_date >>

NoneCandidate ==
  [found |-> FALSE, platform |-> None, url |-> None, thumbnail |-> None,
   title |-> None]

EmptyResult == [context |-> << >>, candidate |-> NoneCandidate, raised |-> FALSE]

\* ------------------------------------------------------- retry_on_error
general_max_attempts == 2

sns_max_attempts == 2

\* retry_on_error.wrapper, the except branch: sleep and go on, or re-raise
retry_on_error_never_raises(attempt, max_attempts) == "sleep"

retry_on_error(attempt, max_attempts) ==
  IF attempt < max_attempts THEN "sleep" ELSE "raise"

\* what one invocation of the wrapped function does: return a value or
\* raise an exception
FuncOutcomes ==
  { [ok |-> TRUE, what |-> v] : v \in {"value_a", "value_b"} }
  \cup { [ok |-> FALSE, what |-> e] : e \in {"error_a", "error_b", "error_c"} }

NoWrapperResult == [raised |-> FALSE, what |-> None]

WrapperIdle ==
  /\ wrapper_max_attempts = 1
  /\ wrapper_delay = 2
  /\ wrapper_attempt = 1
  /\ wpc = "idle"
  /\ wrapper_trace = << >>
  /\ wrapper_result = NoWrapperResult

\* a call of a function decorated with retry_on_error(max_attempts, delay)
WrapperInit ==
  /\ wrapper_max_attempts \in 1 .. MaxRetryAttempts
  /\ wrapper_delay \in {1, 2}
  /\ wrapper_attempt = 1
  /\ wpc = "invoke"
  /\ wrapper_trace = << >>
  /\ wrapper_result = NoWrapperResult

\* wrapper: return func(*args, **kwargs), with its except branch
wrapper_invoke ==
  /\ wpc = "invoke"
  /\ wrapper_attempt <= MaxRetryAttempts + 1
  /\ \E outcome \in FuncOutcomes :
       /\ wrapper_trace' = Append(wrapper_trace,
                                  [kind |-> "invoke", ok |-> outcome.ok,
                                   what |-> outcome.what])
       /\ IF outcome.ok
          THEN /\ wpc' = "returned"
               /\ wrapper_result' = [raised |-> FALSE, what |-> outcome.what]
          ELSE IF retry_on_error(wrapper_attempt, wrapper_max_attempts) = "sleep"
               THEN /\ wpc' = "sleep"
                    /\ UNCHANGED wrapper_result
               ELSE /\ wpc' = "raised"
                    /\ wrapper_result' = [raised |-> TRUE, what |-> outcome.what]
  /\ UNCHANGED << wrapper_max_attempts, wrapper_delay, wrapper_attempt >>
  /\ UNCHANGED << evars, ovars, avars, zvars >>

\* wrapper: time.sleep(delay), then the next iteration of the for loop
wrapper_sleep ==
  /\ wpc = "sleep"
  /\ wrapper_trace' = Append(wrapper_trace,
                             [kind |-> "sleep", ok |-> TRUE, what |-> wrapper_delay])
  /\ wrapper_attempt' = wrapper_attempt + 1
  /\ wpc' = "invoke"
  /\ UNCHANGED << wrapper_max_attempts, wrapper_delay, wrapper_result >>
  /\ UNCHANGED << evars, ovars, avars, zvars >>

\* ------------------------------------------------------- the engine as one step
\* the futures that returned candidates, in any completion order
HitFutures(resp) == {i \in Futures : resp[i].kind = "hit"}

CompletionOrders(resp) ==
  {o \in [1 .. Cardinality(HitFutures(resp)) -> HitFutures(resp)] :
     \A a, b \in DOMAIN o : a # b => o[a] # o[b]}

\* the provider responses of one engine call
ResponseConfigs ==
  UNION { { [i \in Futures |-> IF i \in S THEN g[i] ELSE EmptyOutcome] :
              g \in { h \in [S -> UNION {Outcomes(FutureProvider(i)) : i \in S}] :
                        \A i \in S : /\ h[i] \in Outcomes(FutureProvider(i))
                                     /\ IsEvent(h[i]) } } :
          S \in {T \in SUBSET Futures : Cardinality(T) <= MaxEvents} }

RECURSIVE CollectInOrder(_, _, _)
CollectInOrder(resp, order, k) ==
  IF k = 0 THEN << >>
  ELSE Collect(CollectInOrder(resp, order, k - 1), order[k], resp[order[k]])

\* the validation loop of search_sns_content from position k on; with
\* model_down every chat_model.invoke of the call raises
RECURSIVE ValidateFrom(_, _, _, _, _, _)
ValidateFrom(sorted, k, uq, checker, model_down, nchecks) ==
  IF k > Len(sorted) THEN [result |-> NotFound, checks |-> nchecks]
  ELSE IF validates(checker, uq)
       THEN IF relevance_act(uq, sorted[k].title, sorted[k].platform,
                             IF model_down THEN "raise"
                             ELSE RelevanceModel(sorted[k].title))
            THEN [result |-> Found(sorted[k]), checks |-> nchecks + 1]
            ELSE ValidateFrom(sorted, k + 1, uq, checker, model_down,
                              nchecks + 1)
       ELSE [result |-> Found(sorted[k]), checks |-> nchecks]

\* search_sns_content for a query that is not None
search_sns_content(uq, checker, model_down, resp, order) ==
  LET unique == RemoveDuplicateUrls(CollectInOrder(resp, order, Len(order)))
  IN IF unique = << >> THEN [result |-> NotFound, checks |-> 0]
     ELSE ValidateFrom(sort_by_recency(unique), 1, uq, checker, model_down, 0)

\* every (result, number of checks) a call of search_sns_content can give
EngineRuns(uq) ==
  UNION { { search_sns_content(uq, TRUE, model_down, resp, order) :
              order \in CompletionOrders(resp), model_down \in BOOLEAN } :
          resp \in ResponseConfigs }

\* ------------------------------------------------------- session
\* StreamlitSessionManager.add_message
add_message(role, sns_content) ==
  /\ opc = "idle"
  /\ Len(messages) < MaxMessages
  /\ messages' = Append(messages, [role |-> role, sns_content |-> sns_content])
  /\ UNCHANGED << engine_runs, search_service, question, analysis_result, opc,
                  outer_attempt, inner_attempt, add_term_instruction,
                  via_fallback, calls, last_web, last_sns,
                  strategy_exception, exec_result >>
  /\ UNCHANGED << classifier_calls, classifier_outputs, shared_topics_list, evars,
                  xvars >>

\* an assistant message of the stored conversation carries social content
HasSocialContent ==
  \E k \in DOMAIN messages :
     messages[k].role = "assistant" /\ messages[k].sns_content

\* ------------------------------------------------------- analyze_question
NoClassifierCalls == [made |-> 0, failed |-> 0]

AnalysisWithSearchDefault ==
  [search_type |-> "GENERAL_TOPIC_SEARCH", search_term |-> "name_topic",
   is_media_requested |-> FALSE]

NoAnalysis ==
  [search_type |-> "NO_SEARCH", search_term |-> None,
   is_media_requested |-> FALSE]

\* no analyze_question call yet: the results the agents give when they are
\* not asked
NoClassifierOutputs ==
  [term |-> [needs_search |-> FALSE, search_term |-> None],
   topic |-> [needs_search |-> FALSE, search_term |-> None,
              is_daily_life |-> FALSE],
   media |-> FALSE, superseding |-> FALSE]

\* what one chat_model.invoke of a classifier can do: raise, answer a text
\* that is no JSON object, or answer a JSON object
ClassifierFailed(reply) == reply.kind \in {"raise", "malformed"}

TermReplies ==
  { [kind |-> k, needs_search |-> FALSE, search_term |-> None] :
      k \in {"raise", "malformed"} }
  \cup { [kind |-> "json", needs_search |-> FALSE, search_term |-> None] }
  \cup { [kind |-> "json", needs_search |-> TRUE, search_term |-> t] :
           t \in {None, "", "slang"} }

TopicReplies ==
  { [kind |-> k, needs_search |-> FALSE, search_term |-> None,
     is_daily_life |-> FALSE] : k \in {"raise", "malformed"} }
  \cup { [kind |-> "json", needs_search |-> FALSE, search_term |-> None,
          is_daily_life |-> d] : d \in BOOLEAN }
  \cup { [kind |-> "json", needs_search |-> TRUE, search_term |-> t,
          is_daily_life |-> d] : t \in {None, "", "topic"}, d \in BOOLEAN }

MediaReplies ==
  { [kind |-> k, is_media_requested |-> FALSE] : k \in {"raise", "malformed"} }
  \cup { [kind |-> "json", is_media_requested |-> m] : m \in BOOLEAN }

\* TermDetectAgent.act, the except branch
TermDetectOnExceptionSearch == [needs_search |-> TRUE, search_term |-> "slang"]

TermDetectOnException == [needs_search |-> FALSE, search_term |-> None]

\* TermDetectAgent.act: (False, None) for an empty message and on any
\* exception; a text that is no JSON object parses to {} and the defaults
\* of result.get apply
term_detect_act(user_message, reply) ==
  IF user_message = "" THEN [needs_search |-> FALSE, search_term |-> None]
  ELSE IF reply.kind = "raise" THEN TermDetectOnException
  ELSE IF reply.kind = "malformed"
       THEN [needs_search |-> FALSE, search_term |-> None]
  ELSE [needs_search |-> reply.needs_search,
        search_term |-> IF reply.needs_search THEN reply.search_term ELSE None]

\* TopicDetectAgent.act: the influencer name is put in front of the term
topic_query(term) == IF term \in {None, ""} THEN term ELSE "name_topic"

\* TopicDetectAgent.act
topic_detect_act(user_message, reply) ==
  IF user_message = "" \/ reply.kind = "raise"
  THEN [needs_search |-> FALSE, search_term |-> None, is_daily_life |-> FALSE]
  ELSE IF reply.kind = "malformed"
       THEN [needs_search |-> FALSE, search_term |-> None,
             is_daily_life |-> FALSE]
  ELSE [needs_search |-> reply.needs_search,
        search_term |-> IF reply.needs_search
                        THEN topic_query(reply.search_term) ELSE None,
        is_daily_life |-> reply.is_daily_life]

\* TopicDetectAgent.is_media_requested: False on any exception
is_media_requested(reply) ==
  IF reply.kind = "json" THEN reply.is_media_requested ELSE FALSE

\* the results TermDetectAgent.act and TopicDetectAgent.act can give
TermOutputs == { term_detect_act("uq", r) : r \in TermReplies }

TopicOutputs == { topic_detect_act("uq", r) : r \in TopicReplies }

\* _handle_term_search: f"{search_term} meaning", "" for a falsy term
term_query(term) == IF term \in {None, ""} THEN "" ELSE "slang_meaning"

\* the model calls of one analyze_question: the term classifier unless the
\* message is empty, the topic classifier unless the message is empty or a
\* term was detected, the media-request classifier always
ClassifierCalls(q, term, term_reply, topic_reply, media_reply) ==
  LET called == << q # "", q # "" /\ ~term.needs_search, TRUE >>
      failed == << ClassifierFailed(term_reply), ClassifierFailed(topic_reply),
                   ClassifierFailed(media_reply) >>
  IN [made |-> Cardinality({k \in 1 .. 3 : called[k]}),
      failed |-> Cardinality({k \in 1 .. 3 : called[k] /\ failed[k]})]

analyze_question ==
  /\ opc = "idle"
  /\ \E q \in Questions, term_reply \in TermReplies,
        topic_reply \in TopicReplies, media_reply \in MediaReplies :
       LET term == term_detect_act(q, term_reply)
           topic == topic_detect_act(q, topic_reply)
           media == is_media_requested(media_reply)
       IN /\ question' = q
          /\ classifier_calls' =
               ClassifierCalls(q, term, term_reply, topic_reply, media_reply)
          /\ classifier_outputs' =
               [term |-> term,
                topic |-> IF term.needs_search THEN NoClassifierOutputs.topic
                          ELSE topic,
                media |-> media,
                superseding |-> classifier_calls # NoClassifierCalls]
          /\ analysis_result' =
               IF term.needs_search
               THEN [search_type |-> "TERM_SEARCH",
                     search_term |-> term_query(term.search_term),
                     is_media_requested |-> media]
               ELSE IF topic.needs_search
               THEN [search_type |-> IF topic.is_daily_life THEN "SNS_SEARCH"
                                     ELSE "GENERAL_TOPIC_SEARCH",
                     search_term |-> topic.search_term,
                     is_media_requested |-> media]
               ELSE [search_type |-> "NO_SEARCH", search_term |-> None,
                     is_media_requested |-> media]
  /\ UNCHANGED << engine_runs, search_service, messages, opc, outer_attempt,
                  inner_attempt, add_term_instruction, via_fallback, calls,
                  last_web, last_sns, strategy_exception, exec_result,
                  shared_topics_list >>
  /\ UNCHANGED << evars, xvars >>

\* SearchOrchestrator.needs_search
needs_search == analysis_result.search_type # "NO_SEARCH"

\* ------------------------------------------------------- execute_search
NoCalls ==
  [web |-> 0, web_raised |-> 0, engine |-> 0, provider |-> 0, relevance |-> 0,
   sleep |-> 0]

\* execute_search: the if / elif chain on search_type
StrategyOfNoSearchAsGeneral(search_type) ==
  CASE search_type = "TERM_SEARCH" -> "general_with_instruction"
    [] search_type = "SNS_SEARCH" -> "sns_with_fallback"
    [] OTHER -> "general"

StrategyOf(search_type) ==
  CASE search_type = "TERM_SEARCH" -> "general_with_instruction"
    [] search_type = "SNS_SEARCH" -> "sns_with_fallback"
    [] search_type = "GENERAL_TOPIC_SEARCH" -> "general"
    [] OTHER -> "none"

\* execute_search: except Exception ... return "", None; the wrapper of
\* log_search_execution hands a returned pair on unchanged
ExecuteSearchExceptReraise ==
  [context |-> << >>, candidate |-> NoneCandidate, raised |-> TRUE]

ExecuteSearchExcept ==
  [context |-> << >>, candidate |-> NoneCandidate, raised |-> FALSE]

\* the call enters execute_search and picks the strategy
execute_search_call ==
  /\ opc = "idle"
  /\ calls' = NoCalls
  /\ last_web' = "none"
  /\ last_sns' = NoneCandidate
  /\ strategy_exception' = FALSE
  /\ outer_attempt' = 1
  /\ inner_attempt' = 1
  /\ via_fallback' = FALSE
  /\ LET strategy == StrategyOf(analysis_result.search_type)
     IN /\ add_term_instruction' = (strategy = "general_with_instruction")
        /\ opc' = CASE strategy = "sns_with_fallback" -> "sns"
                    [] strategy = "none" -> "returned"
                    [] OTHER -> "general"
        /\ exec_result' = EmptyResult
  /\ UNCHANGED << engine_runs, search_service, messages, question, analysis_result >>
  /\ UNCHANGED << classifier_calls, classifier_outputs, shared_topics_list, evars,
                  xvars >>

\* the wrapper of _search_sns_content_with_fallback gives up at once
SnsAttemptRaisedNoRetry ==
  /\ outer_attempt' = outer_attempt
  /\ opc' = "returned"
  /\ strategy_exception' = TRUE
  /\ exec_result' = ExecuteSearchExcept

\* an exception leaves the wrapper of _search_sns_content_with_fallback:
\* the next state of the call after attempt outer_attempt has raised
SnsAttemptRaised ==
  IF retry_on_error(outer_attempt, sns_max_attempts) = "sleep"
  THEN /\ outer_attempt' = outer_attempt + 1
       /\ opc' = "sns"
       /\ strategy_exception' = FALSE
       /\ exec_result' = exec_result
  ELSE /\ outer_attempt' = outer_attempt
       /\ opc' = "returned"
       /\ strategy_exception' = TRUE
       /\ exec_result' = ExecuteSearchExcept

SleepIf(c, decision) == IF decision = "sleep" THEN c + 1 ELSE c

\* _search_sns_content_with_fallback without a SearchService
sns_without_service ==
  /\ opc = "sns"
  /\ search_service = None
  /\ exec_result' = EmptyResult
  /\ opc' = "returned"
  /\ UNCHANGED << engine_runs, search_service, messages, question, analysis_result,
                  outer_attempt, inner_attempt, add_term_instruction,
                  via_fallback, calls, last_web, last_sns, strategy_exception >>
  /\ UNCHANGED << classifier_calls, classifier_outputs, shared_topics_list, evars,
                  xvars >>

\* search_sns_content raises (_clean_youtube_query of a None query)
sns_engine_raises ==
  /\ opc = "sns"
  /\ search_service # None
  /\ analysis_result.search_term = None
  /\ calls' = [calls EXCEPT !.engine = @ + 1,
                 !.sleep = SleepIf(@, retry_on_error(outer_attempt, sns_max_attempts))]
  /\ SnsAttemptRaised
  /\ UNCHANGED << engine_runs, search_service, messages, question, analysis_result,
                  inner_attempt, add_term_instruction, via_fallback,
                  last_web, last_sns >>
  /\ UNCHANGED << classifier_calls, classifier_outputs, shared_topics_list, evars,
                  xvars >>

\* the fallback call: self._search_general_context(search_term)
FallbackInstructionAdded == TRUE

FallbackInstruction == FALSE

\* search_sns_content returns: a found post is formatted and returned,
\* otherwise the general search is called
sns_engine_returns ==
  /\ opc = "sns"
  /\ search_service # None
  /\ analysis_result.search_term # None
  /\ \E run \in engine_runs[question] :
            /\ calls' = [calls EXCEPT !.engine = @ + 1,
                           !.provider = @ + Cardinality(Futures),
                           !.relevance = @ + run.checks]
            /\ last_sns' = run.result
            /\ IF run.result.found
               THEN /\ exec_result' = [context |-> sns_context(run.result),
                                       candidate |-> run.result,
                                       raised |-> FALSE]
                    /\ opc' = "returned"
                    /\ UNCHANGED << inner_attempt, add_term_instruction,
                                    via_fallback >>
               ELSE /\ opc' = "general"
                    /\ via_fallback' = TRUE
                    /\ add_term_instruction' = FallbackInstruction
                    /\ inner_attempt' = 1
                    /\ UNCHANGED exec_result
  /\ UNCHANGED << engine_runs, search_service, messages, question, analysis_result,
                  outer_attempt, last_web, strategy_exception >>
  /\ UNCHANGED << classifier_calls, classifier_outputs, shared_topics_list, evars,
                  xvars >>

\* _search_general_context without a SearchService
general_without_service_lookup ==
  /\ opc = "general"
  /\ search_service = None
  /\ calls' = [calls EXCEPT !.web = @ + 1]
  /\ exec_result' = [context |-> general_context(analysis_result.search_term,
                                    "no_results", add_term_instruction),
                     candidate |-> NoneCandidate, raised |-> FALSE]
  /\ opc' = "returned"
  /\ UNCHANGED << engine_runs, search_service, messages, question, analysis_result,
                  outer_attempt, inner_attempt, add_term_instruction,
                  via_fallback, last_web, last_sns, strategy_exception >>
  /\ UNCHANGED << classifier_calls, classifier_outputs, shared_topics_list, evars,
                  xvars >>

general_without_service ==
  /\ opc = "general"
  /\ search_service = None
  /\ exec_result' = EmptyResult
  /\ opc' = "returned"
  /\ UNCHANGED << engine_runs, search_service, messages, question, analysis_result,
                  outer_attempt, inner_attempt, add_term_instruction,
                  via_fallback, calls, last_web, last_sns, strategy_exception >>
  /\ UNCHANGED << classifier_calls, classifier_outputs, shared_topics_list, evars,
                  xvars >>

\* one attempt of _search_general_context that returns its context
general_attempt_returns ==
  /\ opc = "general"
  /\ search_service # None
  /\ \E web \in WebOutcomes \ {"raise"} :
       /\ last_web' = web
       /\ exec_result' = [context |-> general_context(analysis_result.search_term,
                                         web, add_term_instruction),
                          candidate |-> NoneCandidate, raised |-> FALSE]
  /\ calls' = [calls EXCEPT !.web = @ + 1]
  /\ opc' = "returned"
  /\ UNCHANGED << engine_runs, search_service, messages, question, analysis_result,
                  outer_attempt, inner_attempt, add_term_instruction,
                  via_fallback, last_sns, strategy_exception >>
  /\ UNCHANGED << classifier_calls, classifier_outputs, shared_topics_list, evars,
                  xvars >>

\* one attempt of _search_general_context that raises: its own wrapper
\* sleeps and retries, or re-raises to the caller of the wrapper, which is
\* execute_search or the body of _search_sns_content_with_fallback
general_attempt_raises ==
  /\ opc = "general"
  /\ search_service # None
  /\ last_web' = "raise"
  /\ IF retry_on_error(inner_attempt, general_max_attempts) = "sleep"
     THEN /\ inner_attempt' = inner_attempt + 1
          /\ calls' = [calls EXCEPT !.web = @ + 1, !.web_raised = @ + 1,
                                    !.sleep = @ + 1]
          /\ UNCHANGED << opc, outer_attempt, strategy_exception, exec_result >>
     ELSE IF via_fallback
          THEN /\ calls' = [calls EXCEPT !.web = @ + 1, !.web_raised = @ + 1,
                  !.sleep = SleepIf(@, retry_on_error(outer_attempt, sns_max_attempts))]
               /\ SnsAttemptRaised
               /\ UNCHANGED inner_attempt
          ELSE /\ calls' = [calls EXCEPT !.web = @ + 1, !.web_raised = @ + 1]
               /\ opc' = "returned"
               /\ strategy_exception' = TRUE
               /\ exec_result' = ExecuteSearchExcept
               /\ UNCHANGED << inner_attempt, outer_attempt >>
  /\ UNCHANGED << engine_runs, search_service, messages, question, analysis_result,
                  add_term_instruction, via_fallback, last_sns >>
  /\ UNCHANGED << classifier_calls, classifier_outputs, shared_topics_list, evars,
                  xvars >>

\* the caller has the pair; the bookkeeping of the call is dropped and the
\* next turn can begin
execute_search_done ==
  /\ opc = "returned"
  /\ opc' = "idle"
  /\ outer_attempt' = 1
  /\ inner_attempt' = 1
  /\ add_term_instruction' = FALSE
  /\ via_fallback' = FALSE
  /\ calls' = NoCalls
  /\ last_web' = "none"
  /\ last_sns' = NoneCandidate
  /\ strategy_exception' = FALSE
  /\ exec_result' = EmptyResult
  /\ UNCHANGED << engine_runs, search_service, messages, question, analysis_result >>
  /\ UNCHANGED << classifier_calls, classifier_outputs, shared_topics_list, evars,
                  xvars >>

\* ------------------------------------------------------- run_app
\* run_app: max_retries
max_retries == 3

AppIdle ==
  /\ apc = "idle"
  /\ turn = 0
  /\ app_messages = << >>
  /\ app_sns_content = NoneCandidate
  /\ app_requests_content = "unbound"
  /\ retry_count = 0
  /\ parts = 0
  /\ part_idx = 0
  /\ displayed = FALSE
  /\ invocations = 0
  /\ last_outcome = "none"

\* StreamlitSessionManager.add_message: the stored dict has the key
\* sns_content only for a truthy sns_content
session_message(role, payload) ==
  [role |-> role, sns_content |-> payload # NoneCandidate,
   found |-> app_sns_content.found, requested |-> app_requests_content,
   displayed |-> displayed]

\* what EntityDetector.detect returns
EntityOutputs ==
  [needs_search : BOOLEAN, search_term : {None, "name_topic"},
   is_daily_life : BOOLEAN, requests_content : BOOLEAN]

\* what search_sns_content does in run_app
AppEngineOutcomes == {"found", "not_found", "raise"}

AppFound ==
  [found |-> TRUE, platform |-> "youtube", url |-> "yt1",
   thumbnail |-> ThumbnailOf("yt1", "youtube_api_v3"), title |-> "on_topic"]

\* the try block of run_app that sets sns_content and requests_content,
\* over every result the detectors and search_sns_content are declared to
\* return; an exception in the block leaves the values assigned so far,
\* which for one raised before EntityDetector.detect returns are the
\* values of the term branch
search_block(term_needs_search, entity, serpapi_key, engine) ==
  IF term_needs_search
  THEN [sns_content |-> NoneCandidate, requests_content |-> "unbound"]
  ELSE [sns_content |->
          IF /\ entity.needs_search
             /\ entity.search_term # None
             /\ serpapi_key
             /\ entity.is_daily_life
             /\ engine = "found"
          THEN AppFound ELSE NoneCandidate,
        requests_content |-> IF entity.requests_content THEN "true" ELSE "false"]

\* a chat input arrives: the user message is displayed and stored
chat_input ==
  /\ apc = "idle"
  /\ turn < MaxTurns
  /\ turn' = turn + 1
  /\ retry_count' = 0
  /\ app_sns_content' = NoneCandidate
  /\ app_requests_content' = "unbound"
  /\ displayed' = FALSE
  /\ parts' = 0
  /\ part_idx' = 0
  /\ invocations' = 0
  /\ last_outcome' = "none"
  /\ app_messages' = Append(app_messages,
                            [role |-> "human", sns_content |-> FALSE,
                             found |-> FALSE, requested |-> "unbound",
                             displayed |-> FALSE])
  /\ apc' = "search"
  /\ UNCHANGED << evars, ovars, rvars, zvars >>

\* detection and search of the turn
run_search_block ==
  /\ apc = "search"
  /\ \E term_needs_search \in BOOLEAN, entity \in EntityOutputs,
        serpapi_key \in BOOLEAN, engine \in AppEngineOutcomes :
       LET r == search_block(term_needs_search, entity, serpapi_key, engine)
       IN /\ app_sns_content' = r.sns_content
          /\ app_requests_content' = r.requests_content
  /\ apc' = "respond"
  /\ UNCHANGED << turn, app_messages, retry_count, parts, part_idx, displayed >>
  /\ UNCHANGED << invocations, last_outcome >>
  /\ UNCHANGED << evars, ovars, rvars, zvars >>

\* the texts of the exceptions an iteration of the while loop can end in
ErrorTexts == {"overloaded_error", "status_529", "other_error"}

\* "overloaded_error" in error_text or "529" in error_text
is_overload_error_always(error_text) == TRUE

is_overload_error(error_text) ==
  error_text \in {"overloaded_error", "status_529"}

\* one iteration of the while loop up to the split of the response:
\* conversation.invoke answers, or raises an overloaded error or another one
respond ==
  /\ apc = "respond"
  /\ retry_count < max_retries
  /\ invocations' = invocations + 1
  /\ \E outcome \in {"ok"} \cup ErrorTexts :
       /\ last_outcome' = outcome
       /\ CASE outcome = "ok" ->
              /\ parts' \in 1 .. MaxParts
              /\ part_idx' = 0
              /\ apc' = "parts"
              /\ UNCHANGED << retry_count, app_messages >>
         [] outcome # "ok" /\ is_overload_error(outcome) ->
              /\ retry_count' = retry_count + 1
              /\ IF retry_count + 1 < max_retries
                 THEN UNCHANGED << apc, app_messages >>
                 ELSE /\ app_messages' =
                           Append(app_messages,
                                  session_message("assistant", NoneCandidate))
                      /\ apc' = "idle"
              /\ UNCHANGED << parts, part_idx >>
         [] OTHER ->
              /\ retry_count' = retry_count + 1
              /\ app_messages' =
                   Append(app_messages,
                          session_message("assistant", NoneCandidate))
              /\ apc' = "idle"
              /\ UNCHANGED << parts, part_idx >>
  /\ UNCHANGED << turn, app_sns_content, app_requests_content, displayed >>
  /\ UNCHANGED << evars, ovars, rvars, zvars >>

\* the condition under which the found post is shown and stored
shows_sns_content_unrequested(sns_content, requests_content) ==
  sns_content.found

shows_sns_content(sns_content, requests_content) ==
  sns_content.found /\ requests_content = "true"

\* the thumbnail and the link button of the found post are displayed
display_sns_content ==
  /\ apc = "parts"
  /\ part_idx = 0
  /\ shows_sns_content(app_sns_content, app_requests_content)
  /\ ~displayed
  /\ displayed' = TRUE
  /\ UNCHANGED << apc, turn, app_messages, app_sns_content,
                  app_requests_content, retry_count, parts, part_idx >>
  /\ UNCHANGED << invocations, last_outcome >>
  /\ UNCHANGED << evars, ovars, rvars, zvars >>

\* one part of the response is stored: the first with the post if it
\* was shown, the others without; after the last part the loop is left
store_part ==
  /\ apc = "parts"
  /\ part_idx < parts
  /\ (part_idx = 0 /\ shows_sns_content(app_sns_content, app_requests_content))
       => displayed
  /\ app_messages' =
       Append(app_messages,
              session_message("assistant",
                 IF part_idx = 0 /\ shows_sns_content(app_sns_content,
                                                      app_requests_content)
                 THEN app_sns_content ELSE NoneCandidate))
  /\ part_idx' = part_idx + 1
  /\ apc' = IF part_idx + 1 = parts THEN "idle" ELSE "parts"
  /\ UNCHANGED << turn, app_sns_content, app_requests_content, retry_count,
                  parts, displayed >>
  /\ UNCHANGED << invocations, last_outcome >>
  /\ UNCHANGED << evars, ovars, rvars, zvars >>

\* ------------------------------------------------------- session manager
\* a stored turn: {"user": user_message, "ai": ai_response}
Turns == [user : {"u1", "u2"}, ai : {"a1", "a2"}]

\* the count arguments: negative, zero, up to more than can be stored
Counts == -1 .. (MaxStoredTurns + 1)

Min(a, b) == IF a <= b THEN a ELSE b

\* list[start:] of Python: a negative start counts from the end, and a
\* start outside the list is clamped
SliceFrom(list, start) ==
  LET n == Len(list)
      from == IF start < 0 THEN (IF n + start < 0 THEN 0 ELSE n + start)
              ELSE Min(start, n)
  IN SubSeq(list, from + 1, n)

\* StreamlitSessionManager.get_recent_conversation_turns
get_recent_conversation_turns(turns, count) ==
  IF turns = << >> THEN << >>
  ELSE SliceFrom(turns, 0 - Min(count, Len(turns)))

NoRecentCall == [called |-> FALSE, count |-> 0, stored |-> << >>, result |-> << >>]

SessionIdle ==
  /\ conversation_turns = << >>
  /\ recent_call = NoRecentCall

\* StreamlitSessionManager.add_conversation_turn
add_conversation_turn(user_message, ai_response) ==
  /\ Len(conversation_turns) < MaxStoredTurns
  /\ conversation_turns' =
       Append(conversation_turns, [user |-> user_message, ai |-> ai_response])
  /\ UNCHANGED recent_call
  /\ UNCHANGED << evars, ovars, rvars, avars, qvars >>

\* a caller asks for the recent turns
recent_conversation_turns_call(count) ==
  /\ recent_call' =
       [called |-> TRUE, count |-> count, stored |-> conversation_turns,
        result |-> get_recent_conversation_turns(conversation_turns, count)]
  /\ UNCHANGED conversation_turns
  /\ UNCHANGED << evars, ovars, rvars, avars, qvars >>

\* ------------------------------------------------------- SnsSearchService
\* _search_sns_content: time_ranges, tried in this order
seq_time_ranges == << "recent_6_months", "all_time" >>

\* the futures a call can submit: per time range the image search, then
\* the video search
SeqFutures == 1 .. (2 * Len(seq_time_ranges))

SeqWindow(i) == (i + 1) \div 2

SeqProvider(i) == IF i % 2 = 1 THEN "google_images" ELSE "youtube_api_v3"

\* the lists a fetch can return; a fetch that fails returns []
SeqCandidateLists(i) ==
  UNION { [1 .. n -> [platform : {IF SeqProvider(i) = "google_images"
                                   THEN "instagram" ELSE "youtube"},
                      title : Titles]] : n \in 0 .. MaxCandidates }

NotSubmitted == [state |-> "not_submitted", candidates |-> << >>, yielded |-> FALSE]

SeqNotFound == [found |-> FALSE, window |-> 0, title |-> "-"]

SequentialIdle ==
  /\ seq_pc = "idle"
  /\ seq_question = ""
  /\ seq_youtube_key = FALSE
  /\ seq_window = 1
  /\ seq_futures = [i \in SeqFutures |-> NotSubmitted]
  /\ seq_judged = << >>
  /\ seq_result = SeqNotFound

\* a call of _search_sns_content with a query that is a string
SequentialCallInit ==
  /\ seq_pc = "submit_images"
  /\ seq_question \in Questions
  /\ seq_youtube_key \in BOOLEAN
  /\ seq_window = 1
  /\ seq_futures = [i \in SeqFutures |-> NotSubmitted]
  /\ seq_judged = << >>
  /\ seq_result = SeqNotFound

\* the futures of a time range that were submitted
PeriodFutures(w) ==
  {i \in SeqFutures : SeqWindow(i) = w /\ seq_futures[i].state # "not_submitted"}

\* executor.submit(self._search_google_images_with_metadata, ...)
seq_submit_images ==
  /\ seq_pc = "submit_images"
  /\ seq_futures' = [seq_futures EXCEPT ![2 * seq_window - 1].state = "running"]
  /\ seq_pc' = "submit_videos"
  /\ UNCHANGED << seq_question, seq_youtube_key, seq_window, seq_judged,
                  seq_result >>
  /\ UNCHANGED << evars, ovars, rvars, avars, svars >>

\* if self.youtube_api_key: executor.submit(self._search_youtube_direct_with_metadata, ...)
seq_submit_videos ==
  /\ seq_pc = "submit_videos"
  /\ seq_futures' = IF seq_youtube_key
                    THEN [seq_futures EXCEPT ![2 * seq_window].state = "running"]
                    ELSE seq_futures
  /\ seq_pc' = "as_completed"
  /\ UNCHANGED << seq_question, seq_youtube_key, seq_window, seq_judged,
                  seq_result >>
  /\ UNCHANGED << evars, ovars, rvars, avars, svars >>

\* a worker thread finishes the fetch of future i
seq_fetch_done(i) ==
  /\ seq_pc \in {"submit_videos", "as_completed", "shutdown"}
  /\ seq_futures[i].state = "running"
  /\ \E candidates \in SeqCandidateLists(i) :
       seq_futures' = [seq_futures EXCEPT ![i].state = "done",
                                          ![i].candidates = candidates]
  /\ UNCHANGED << seq_pc, seq_question, seq_youtube_key, seq_window,
                  seq_judged, seq_result >>
  /\ UNCHANGED << evars, ovars, rvars, avars, svars >>

\* the loop over the candidates of future i from position k on: one
\* relevance_checker.act per candidate, up to the first relevant one
RECURSIVE JudgeCandidates(_, _, _, _, _)
JudgeCandidates(i, candidates, replies, uq, k) ==
  IF k > Len(candidates) THEN << >>
  ELSE LET is_relevant == relevance_act(uq, candidates[k].title,
                                        candidates[k].platform, replies[k])
           judged == [future |-> i, position |-> k, is_relevant |-> is_relevant]
       IN IF is_relevant THEN << judged >>
          ELSE << judged >> \o JudgeCandidates(i, candidates, replies, uq, k + 1)

FoundRelevant(judged) ==
  judged # << >> /\ judged[Len(judged)].is_relevant

\* as_completed yields future i of the current time range and its
\* candidates are checked; a relevant one is returned from inside the
\* with block of the pool
seq_future_yielded(i) ==
  /\ seq_pc = "as_completed"
  /\ i \in PeriodFutures(seq_window)
  /\ seq_futures[i].state = "done"
  /\ ~seq_futures[i].yielded
  /\ \E replies \in [DOMAIN seq_futures[i].candidates ->
                        {"true", "false", "malformed", "raise"}] :
       /\ \A k \in DOMAIN replies :
            replies[k] \in ModelReplies(seq_futures[i].candidates[k].title)
       /\ LET judged == JudgeCandidates(i, seq_futures[i].candidates, replies,
                                        seq_question, 1)
          IN /\ seq_judged' = seq_judged \o judged
             /\ IF FoundRelevant(judged)
                THEN /\ seq_result' =
                          [found |-> TRUE, window |-> seq_window,
                           title |-> seq_futures[i].candidates[Len(judged)].title]
                     /\ seq_pc' = "shutdown"
                ELSE UNCHANGED << seq_result, seq_pc >>
  /\ seq_futures' = [seq_futures EXCEPT ![i].yielded = TRUE]
  /\ UNCHANGED << seq_question, seq_youtube_key, seq_window >>
  /\ UNCHANGED << evars, ovars, rvars, avars, svars >>

\* as_completed(period_futures) is exhausted
PeriodExhaustedAtFirst(w) == \E i \in PeriodFutures(w) : seq_futures[i].yielded

PeriodExhausted(w) == \A i \in PeriodFutures(w) : seq_futures[i].yielded

\* the loop over time_ranges goes on to the next time range, or is left
seq_next_period ==
  /\ seq_pc = "as_completed"
  /\ PeriodExhausted(seq_window)
  /\ IF seq_window < Len(seq_time_ranges)
     THEN /\ seq_window' = seq_window + 1
          /\ seq_pc' = "submit_images"
     ELSE /\ seq_pc' = "shutdown"
          /\ UNCHANGED seq_window
  /\ UNCHANGED << seq_question, seq_youtube_key, seq_futures, seq_judged,
                  seq_result >>
  /\ UNCHANGED << evars, ovars, rvars, avars, svars >>

\* the with block is left: shutdown(wait=True) has waited for the running
\* fetches, and the call returns
seq_return ==
  /\ seq_pc = "shutdown"
  /\ \A i \in SeqFutures : seq_futures[i].state # "running"
  /\ seq_pc' = "returned"
  /\ UNCHANGED << seq_question, seq_youtube_key, seq_window, seq_futures,
                  seq_judged, seq_result >>
  /\ UNCHANGED << evars, ovars, rvars, avars, svars >>

\* ------------------------------------------------------- specifications
OrchestratorIdle ==
  /\ messages = << >>
  /\ question = ""
  /\ analysis_result = NoAnalysis
  /\ opc = "idle"
  /\ outer_attempt = 1
  /\ inner_attempt = 1
  /\ add_term_instruction = FALSE
  /\ via_fallback = FALSE
  /\ calls = NoCalls
  /\ last_web = "none"
  /\ last_sns = NoneCandidate
  /\ strategy_exception = FALSE
  /\ exec_result = EmptyResult
  /\ classifier_calls = NoClassifierCalls
  /\ classifier_outputs = NoClassifierOutputs
  /\ shared_topics_list = << >>

EngineIdle ==
  /\ query = None
  /\ user_question = ""
  /\ relevance_checker = TRUE
  /\ epc = "idle"
  /\ responses = [i \in Futures |-> Pending]
  /\ all_candidates = << >>
  /\ unique_candidates = << >>
  /\ sorted_candidates = << >>
  /\ idx = 1
  /\ checks = << >>
  /\ sns_result = NotFound
  /\ submitted = 0

\* SearchOrchestrator.__init__: search_service only with a SerpAPI key
Init ==
  /\ engine_runs = [q \in Questions |-> EngineRuns(q)]
  /\ search_service \in {"SearchService", None}
  /\ OrchestratorIdle
  /\ EngineIdle
  /\ WrapperIdle
  /\ AppIdle
  /\ SessionIdle
  /\ SequentialIdle

Next ==
  \/ \E role \in {"human", "assistant"}, sns \in BOOLEAN :
        (role = "human" => ~sns) /\ add_message(role, sns)
  \/ analyze_question
  \/ execute_search_call
  \/ sns_without_service
  \/ sns_engine_raises
  \/ sns_engine_returns
  \/ general_without_service
  \/ general_attempt_returns
  \/ general_attempt_raises
  \/ execute_search_done

Spec == Init /\ [][Next]_vars

EngineNext ==
  \/ clean_youtube_query_raises
  \/ submit
  \/ submit_all
  \/ \E i \in Futures : future_completed(i)
  \/ return_unique_candidates
  \/ no_candidates
  \/ rank_candidates
  \/ check_candidate
  \/ return_unchecked
  \/ no_relevant_candidate

EngineCallInit ==
  /\ EngineInit
  /\ engine_runs = [q \in Questions |-> {}]
  /\ search_service = "SearchService"
  /\ OrchestratorIdle
  /\ WrapperIdle
  /\ AppIdle
  /\ SessionIdle
  /\ SequentialIdle

SpecEngine == EngineCallInit /\ [][EngineNext]_vars

\* one call of a function wrapped by retry_on_error
RetryNext ==
  \/ wrapper_invoke
  \/ wrapper_sleep

RetryInit ==
  /\ WrapperInit
  /\ engine_runs = [q \in Questions |-> {}]
  /\ search_service = "SearchService"
  /\ OrchestratorIdle
  /\ EngineIdle
  /\ AppIdle
  /\ SessionIdle
  /\ SequentialIdle

SpecRetry == RetryInit /\ [][RetryNext]_vars

\* run_app over several chat inputs
AppNext ==
  \/ chat_input
  \/ run_search_block
  \/ respond
  \/ display_sns_content
  \/ store_part

AppInit ==
  /\ AppIdle
  /\ engine_runs = [q \in Questions |-> {}]
  /\ search_service = "SearchService"
  /\ OrchestratorIdle
  /\ EngineIdle
  /\ WrapperIdle
  /\ SessionIdle
  /\ SequentialIdle

SpecApp == AppInit /\ [][AppNext]_vars

\* the session manager's conversation turns
SessionNext ==
  \/ \E t \in Turns : add_conversation_turn(t.user, t.ai)
  \/ \E count \in Counts : recent_conversation_turns_call(count)

SessionInit ==
  /\ SessionIdle
  /\ engine_runs = [q \in Questions |-> {}]
  /\ search_service = "SearchService"
  /\ OrchestratorIdle
  /\ EngineIdle
  /\ WrapperIdle
  /\ AppIdle
  /\ SequentialIdle

SpecSession == SessionInit /\ [][SessionNext]_vars

\* one call of SnsSearchService._search_sns_content
SequentialNext ==
  \/ seq_submit_images
  \/ seq_submit_videos
  \/ \E i \in SeqFutures : seq_fetch_done(i)
  \/ \E i \in SeqFutures : seq_future_yielded(i)
  \/ seq_next_period
  \/ seq_return

SequentialInit ==
  /\ SequentialCallInit
  /\ SessionIdle
  /\ engine_runs = [q \in Questions |-> {}]
  /\ search_service = "SearchService"
  /\ OrchestratorIdle
  /\ EngineIdle
  /\ WrapperIdle
  /\ AppIdle

SpecSequential == SequentialInit /\ [][SequentialNext]_vars

\* ======================================================= properties
\* ------------------------------------------------------- orchestrator helpers
Returned == opc = "returned"

EmptyPair ==
  /\ exec_result.context = << >>
  /\ exec_result.candidate = NoneCandidate

UnsolicitedSnsTurn ==
  /\ analysis_result.search_type = "SNS_SEARCH"
  /\ ~analysis_result.is_media_requested

\* the text execute_search returns under GENERAL_TOPIC_SEARCH for a query
\* and the outcome of its last web lookup
GeneralTopicText(search_term, web) ==
  IF web = "raise" THEN << >> ELSE general_context(search_term, web, FALSE)

\* the last discovery run of the call returned {"found": False}
DiscoveryNotFound == calls.engine > 0 /\ last_sns = NotFound

\* C1 as stated. Cooldown: with social content in the stored conversation
\* and an unsolicited SNS_SEARCH turn, execute_search returns ("", None)
\* and neither the discovery engine nor a provider client is invoked.
C1_Cooldown ==
  (Returned /\ HasSocialContent /\ UnsolicitedSnsTurn) =>
    /\ EmptyPair
    /\ calls.engine = 0
    /\ calls.provider = 0

\* C2. execute_search never raises to its caller, and the pair it returns
\* is ("", None) whenever the dispatched strategy ended in an exception.
C2_NeverRaises ==
  /\ ~exec_result.raised
  /\ (Returned /\ strategy_exception) => EmptyPair

\* the web lookup of the fallback raised on every attempt of both retry
\* wrappers, and the call still returned the empty pair
C2_Witness ==
  /\ Returned
  /\ strategy_exception
  /\ calls.web = 4
  /\ calls.engine = 2
  /\ EmptyPair

\* C3. Under NO_SEARCH execute_search returns ("", None) without a web
\* lookup, a discovery-engine call or a relevance check.
C3_NoSearch ==
  (opc # "idle" /\ analysis_result.search_type = "NO_SEARCH") =>
    /\ Returned
    /\ EmptyPair
    /\ calls.web = 0
    /\ calls.engine = 0
    /\ calls.relevance = 0

\* a NO_SEARCH turn returned while a SearchService was there to be called
C3_Witness ==
  /\ Returned
  /\ analysis_result.search_type = "NO_SEARCH"
  /\ search_service # None
  /\ question # ""

\* C4 as stated. Fallback law: SNS_SEARCH with a not-found discovery
\* returns a null candidate and the text GENERAL_TOPIC_SEARCH returns for
\* the same query and web-lookup outcome, and that text is not empty.
C4_FallbackLawAsStated ==
  (Returned /\ analysis_result.search_type = "SNS_SEARCH" /\ DiscoveryNotFound) =>
    /\ exec_result.candidate = NoneCandidate
    /\ exec_result.context
         = GeneralTopicText(analysis_result.search_term, last_web)
    /\ exec_result.context # << >>

\* C4 amended. SNS_SEARCH whose last discovery run is not-found returns a
\* null candidate and the text GENERAL_TOPIC_SEARCH returns for the same
\* query and the same outcome of the last web lookup; that text is not
\* empty unless the lookup raised on its last attempt, and then both
\* intents return ("", None).
C4_FallbackLaw ==
  /\ (Returned /\ analysis_result.search_type = "SNS_SEARCH" /\ DiscoveryNotFound) =>
       /\ exec_result.candidate = NoneCandidate
       /\ exec_result.context
            = GeneralTopicText(analysis_result.search_term, last_web)
       /\ last_web # "raise" => exec_result.context # << >>
       /\ last_web = "raise" => EmptyPair
  /\ (Returned /\ analysis_result.search_type = "GENERAL_TOPIC_SEARCH"
        /\ search_service # None) =>
       /\ exec_result.candidate = NoneCandidate
       /\ exec_result.context
            = GeneralTopicText(analysis_result.search_term, last_web)
       /\ last_web # "raise" => exec_result.context # << >>

\* discovery found nothing relevant and the fallback lookup delivered
\* organic results: the general context is returned
C4_Witness ==
  /\ Returned
  /\ analysis_result.search_type = "SNS_SEARCH"
  /\ DiscoveryNotFound
  /\ calls.relevance > 0
  /\ last_web = "organic_results"
  /\ exec_result.context # << >>

\* ------------------------------------------------------- engine helpers
Merged == epc \in {"merged", "validate", "returned"}

HitOf(i) == FutureResult(i, responses[i])[1]

HitsWithUrl(u) ==
  {i \in Futures : responses[i].kind = "hit" /\ responses[i].url = u}

EntriesWithUrl(list, u) == {k \in DOMAIN list : list[k].url = u}

FirstCollected(u) ==
  all_candidates[CHOOSE k \in EntriesWithUrl(all_candidates, u) :
                   \A j \in EntriesWithUrl(all_candidates, u) : k <= j]

PositionIn(list, u) == CHOOSE k \in DOMAIN list : list[k].url = u

ValidationOn == relevance_checker /\ user_question # ""

\* C5. Dedup invariant: the list _search_all_time_ranges_parallel returns
\* never holds two candidates with the same url, whatever the providers
\* returned and in whatever order the fetches completed.
C5_DedupInvariant ==
  Merged =>
    \A a, b \in DOMAIN unique_candidates :
       a # b => unique_candidates[a].url # unique_candidates[b].url

\* two fetches returned the same url and one of the two entries was dropped
C5_Witness ==
  /\ epc = "merged"
  /\ Len(all_candidates) = 2
  /\ Len(unique_candidates) = 1

\* C6. Rank invariant: the sorted list is a permutation of the deduplicated
\* list, ascending in the rank of the time window, and candidates of equal
\* rank keep the order they had in the merged list.
C6_RankInvariant ==
  epc \in {"validate", "returned"} /\ sorted_candidates # << >> =>
    /\ Len(sorted_candidates) = Len(unique_candidates)
    /\ \A k \in DOMAIN unique_candidates :
         \E j \in DOMAIN sorted_candidates :
            sorted_candidates[j] = unique_candidates[k]
    /\ \A a, b \in DOMAIN sorted_candidates :
         a < b => get_priority(sorted_candidates[a])
                    <= get_priority(sorted_candidates[b])
    /\ \A a, b \in DOMAIN unique_candidates :
         (a < b /\ get_priority(unique_candidates[a])
                     = get_priority(unique_candidates[b]))
         => PositionIn(sorted_candidates, unique_candidates[a].url)
              < PositionIn(sorted_candidates, unique_candidates[b].url)

\* the sort moved a candidate of a more recent window to the front
C6_Witness ==
  /\ epc = "validate"
  /\ Len(sorted_candidates) = 2
  /\ sorted_candidates # unique_candidates

\* C7. Short-circuit invariant: with a relevance checker and a non-empty
\* question the checks are made on positions 1, 2, ... of the ranked list,
\* each once; when the call has returned, their number is the position of
\* the first relevant candidate, or the length of the list if none is
\* relevant.
C7_ShortCircuit ==
  /\ \A k \in DOMAIN checks : checks[k].position = k
  /\ Len(checks) <= Len(sorted_candidates)
  /\ \A k \in DOMAIN checks : k < Len(checks) => ~checks[k].is_relevant
  /\ (epc = "returned" /\ ValidationOn /\ sorted_candidates # << >>) =>
       /\ checks # << >>
       /\ IF checks[Len(checks)].is_relevant
          THEN sns_result = Found(sorted_candidates[Len(checks)])
          ELSE Len(checks) = Len(sorted_candidates) /\ ~sns_result.found

\* the first of two ranked candidates was relevant: one check, not two
C7_Witness ==
  /\ epc = "returned"
  /\ ValidationOn
  /\ Len(sorted_candidates) = 2
  /\ Len(checks) = 1
  /\ checks[1].reply = "true"
  /\ sns_result.found

\* both providers returned url u, with different titles
BothProvidersReturned(u) ==
  \E i, j \in HitsWithUrl(u) :
     /\ FutureProvider(i) = "youtube_api_v3"
     /\ FutureProvider(j) = "google_images"
     /\ responses[i].title # responses[j].title

RECURSIVE CollectSubmitted(_)
CollectSubmitted(k) ==
  IF k = 0 THEN << >>
  ELSE Collect(CollectSubmitted(k - 1), k, responses[k])

RankedInSubmissionOrder ==
  sort_by_recency(RemoveDuplicateUrls(CollectSubmitted(Cardinality(Futures))))

\* C9 as stated. Deterministic output: for the responses the providers
\* gave and the judgments of the relevance model, the ranked list and the
\* returned candidate are the ones of every other completion order, in
\* particular of the order of submission.
C9_DeterministicOutput ==
  (epc = "returned"
     /\ \A k \in DOMAIN checks : checks[k].reply \in {"true", "false"}) =>
    /\ sorted_candidates = RankedInSubmissionOrder
    /\ sns_result = ValidateFrom(RankedInSubmissionOrder, 1, user_question,
                                 relevance_checker, FALSE, 0).result

\* C10. Failure isolation: a failed fetch adds nothing to the merged list,
\* the candidates of all other fetches are in it, their urls survive the
\* dedup, and the call goes on to return (it raises only for a None query).
C10_FailureIsolation ==
  /\ epc = "raised" => query = None
  /\ Merged =>
       /\ \A i \in Futures :
            responses[i].kind = "hit" =>
              /\ \E k \in DOMAIN all_candidates : all_candidates[k] = HitOf(i)
              /\ EntriesWithUrl(unique_candidates, responses[i].url) # {}
       /\ Len(all_candidates)
            = Cardinality({i \in Futures : responses[i].kind = "hit"})

\* a fetch raised after another fetch had delivered its candidate
C10_Witness ==
  /\ epc = "merged"
  /\ \E i \in Futures : responses[i].kind = "raise"
  /\ Len(unique_candidates) = 1

\* what fetch i would hand over if its provider request were retried up to
\* a third attempt
RetriedFetchResult(i) ==
  LET answer == ProviderAnswer(responses[i], 3)
  IN with_metadata(<< [platform |-> PlatformOf(answer.url), url |-> answer.url,
                       thumbnail |-> ThumbnailOf(answer.url, FutureProvider(i)),
                       title |-> answer.title, source |-> FutureProvider(i)] >>,
                   FuturePeriod(i))

\* C11 as stated. Per-fetch retry: a fetch whose provider call raises a
\* transient error on its first two attempts and succeeds on the third
\* contributes the candidates of the third attempt to the engine result.
C11_PerFetchRetry ==
  Merged =>
    \A i \in Futures :
       responses[i].kind = "transient" =>
         /\ \E k \in DOMAIN all_candidates :
               all_candidates[k] = RetriedFetchResult(i)[1]
         /\ EntriesWithUrl(unique_candidates, RetriedFetchResult(i)[1].url) # {}

\* ------------------------------------------------------- retry wrapper
Invocations == {k \in DOMAIN wrapper_trace : wrapper_trace[k].kind = "invoke"}

Sleeps == {k \in DOMAIN wrapper_trace : wrapper_trace[k].kind = "sleep"}

\* C12. Retry Policy contract: func is invoked until its first success and
\* at most max_attempts times; the first successful result is returned with
\* no further invocation; after a failed attempt with attempts remaining
\* the wrapper sleeps delay before the next attempt; if all attempts raise,
\* the exception of the last one propagates and no sleep follows it.
C12_RetryPolicy ==
  /\ Cardinality(Invocations) <= wrapper_max_attempts
  /\ \A k \in DOMAIN wrapper_trace :
       /\ wrapper_trace[k].kind = (IF k % 2 = 1 THEN "invoke" ELSE "sleep")
       /\ wrapper_trace[k].kind = "sleep" => wrapper_trace[k].what = wrapper_delay
       /\ (wrapper_trace[k].kind = "invoke" /\ wrapper_trace[k].ok)
            => k = Len(wrapper_trace)
  /\ wpc = "sleep" => Cardinality(Invocations) < wrapper_max_attempts
  /\ wpc = "returned" =>
       /\ wrapper_trace[Len(wrapper_trace)].ok
       /\ wrapper_result
            = [raised |-> FALSE, what |-> wrapper_trace[Len(wrapper_trace)].what]
       /\ Cardinality(Sleeps) = Cardinality(Invocations) - 1
  /\ wpc = "raised" =>
       /\ Cardinality(Invocations) = wrapper_max_attempts
       /\ \A k \in Invocations : ~wrapper_trace[k].ok
       /\ wrapper_trace[Len(wrapper_trace)].kind = "invoke"
       /\ wrapper_result
            = [raised |-> TRUE, what |-> wrapper_trace[Len(wrapper_trace)].what]
       /\ Cardinality(Sleeps) = wrapper_max_attempts - 1

\* three attempts raised three different exceptions: the third one is
\* propagated after two sleeps
C12_Witness ==
  /\ wpc = "raised"
  /\ wrapper_max_attempts = 3
  /\ Len(wrapper_trace) = 5
  /\ wrapper_trace[1].what = "error_a"
  /\ wrapper_trace[3].what = "error_b"
  /\ wrapper_result = [raised |-> TRUE, what |-> "error_c"]

\* ------------------------------------------------------- analysis
\* C13. Classification failure degrades to NO_SEARCH: when every classifier
\* call made by analyze_question failed, the stored analysis has search_type
\* NO_SEARCH and search_term None, needs_search is false, and the
\* execute_search that follows returns ("", None).
C13_ClassificationFailure ==
  (classifier_calls.made > 0 /\ classifier_calls.failed = classifier_calls.made) =>
    /\ analysis_result.search_type = "NO_SEARCH"
    /\ analysis_result.search_term = None
    /\ ~needs_search
    /\ Returned => (EmptyPair /\ ~exec_result.raised)

\* the term, the topic and the media-request classifier all failed on a
\* non-empty message and execute_search has returned
C13_Witness ==
  /\ Returned
  /\ question # ""
  /\ classifier_calls = [made |-> 3, failed |-> 3]
  /\ search_service # None
  /\ EmptyPair

\* C14 as stated. AnalysisResult invariant: after analyze_question, for
\* every classifier output, a search_type other than NO_SEARCH comes with a
\* search_term that is a non-empty string.
C14_AnalysisResultInvariant ==
  analysis_result.search_type # "NO_SEARCH" =>
    analysis_result.search_term \notin {None, ""}

\* ------------------------------------------------------- proactive share
\* C15 as stated. Recording a proactive share: when execute_search under
\* SNS_SEARCH without a media request returns a found social candidate, the
\* query of the turn is in the shared-topics memory before it returns.
C15_ProactiveShareRecorded ==
  (Returned /\ UnsolicitedSnsTurn /\ exec_result.candidate.found) =>
    \E k \in DOMAIN shared_topics_list :
       shared_topics_list[k] = analysis_result.search_term

\* ------------------------------------------------------- run_app
\* C16. CooldownRecord invariant: a stored assistant message carries an
\* sns_content payload only if, in the turn that stored it, the discovery
\* result was found, the user had requested media and the content was
\* displayed; no message of a turn whose social search was not found or not
\* displayed carries the payload.
C16_CooldownRecord ==
  \A k \in DOMAIN app_messages :
     /\ app_messages[k].sns_content =>
          /\ app_messages[k].role = "assistant"
          /\ app_messages[k].found
          /\ app_messages[k].requested = "true"
          /\ app_messages[k].displayed
     /\ (~app_messages[k].found \/ ~app_messages[k].displayed) =>
          ~app_messages[k].sns_content

\* one turn stored its first part with the post, another turn found a post
\* the user had not asked for and stored its part without it
C16_Witness ==
  /\ apc = "idle"
  /\ \E k \in DOMAIN app_messages : app_messages[k].sns_content
  /\ \E k \in DOMAIN app_messages :
        /\ app_messages[k].role = "assistant"
        /\ app_messages[k].found
        /\ app_messages[k].requested = "false"
        /\ ~app_messages[k].sns_content

\* ------------------------------------------------------- scatter / gather
\* C17. Scatter: all |time windows| x |providers| = 8 fetches are submitted
\* before the result of any of them is awaited; while the submit loop runs
\* no result has been taken, so no submission depends on an outcome.
C17_Scatter ==
  /\ Cardinality(Futures) = 8
  /\ (\E i \in Futures : responses[i] # Pending) =>
       submitted = Cardinality(Futures)
  /\ epc \in {"gather", "merged", "validate", "returned"} =>
       submitted = Cardinality(Futures)
  /\ submitted < Cardinality(Futures) =>
       /\ all_candidates = << >>
       /\ \A i \in Futures : responses[i] = Pending

\* the fetch submitted last is the first whose result is taken, while the
\* fetch submitted first is still outstanding
C17_Witness ==
  /\ epc = "gather"
  /\ submitted = 8
  /\ responses[8].kind = "hit"
  /\ responses[1] = Pending

\* C18. Gather barrier: no candidate is ranked and no relevance check is
\* issued until every submitted fetch has completed or failed, and no fetch
\* is outstanding when search_sns_content returns or raises.
C18_GatherBarrier ==
  /\ (sorted_candidates # << >> \/ checks # << >>
        \/ epc \in {"merged", "validate", "returned"}) =>
       /\ submitted = Cardinality(Futures)
       /\ \A i \in Futures : responses[i] # Pending
  /\ epc = "raised" => submitted = 0

\* a check is issued after one fetch failed and the fetch submitted first
\* delivered its candidate as the last one
C18_Witness ==
  /\ epc = "returned"
  /\ checks # << >>
  /\ \E i \in Futures : responses[i].kind = "raise"
  /\ responses[1].kind = "hit"
  /\ all_candidates # << >>

\* ------------------------------------------------------- validation
\* the relevance checker judges the candidate fetch i returned relevant
JudgedRelevant(i) ==
  /\ responses[i].kind = "hit"
  /\ relevance_act(user_question, HitOf(i).title, HitOf(i).platform,
                   RelevanceModel(HitOf(i).title))

\* C19 as stated. Most-recent-relevant: when search_sns_content returns
\* found, no candidate returned by a fetch of the call and judged relevant
\* comes from a time window of strictly smaller rank than the window label
\* of the returned candidate, also when several windows return one url.
C19_MostRecentRelevant ==
  (epc = "returned" /\ sns_result.found /\ ValidationOn) =>
    \A i \in Futures :
       JudgedRelevant(i) =>
         get_priority(HitOf(i)) >= get_priority(sorted_candidates[Len(checks)])

\* C20. Validation result: with a relevance checker and a non-empty
\* question the call returns found with the url, title, platform and
\* thumbnail of the first candidate in ranked order that the checker judges
\* relevant, and returns {found: false} exactly when the ranked list is
\* empty or no candidate is judged relevant.
C20_ValidationResult ==
  (epc = "returned" /\ ValidationOn) =>
    /\ sns_result.found =>
         /\ checks # << >>
         /\ checks[Len(checks)].is_relevant
         /\ \A k \in 1 .. (Len(checks) - 1) : ~checks[k].is_relevant
         /\ LET first == sorted_candidates[Len(checks)]
            IN sns_result = [found |-> TRUE, platform |-> first.platform,
                             url |-> first.url, thumbnail |-> first.thumbnail,
                             title |-> first.title]
    /\ ~sns_result.found <=>
         \/ sorted_candidates = << >>
         \/ /\ Len(checks) = Len(sorted_candidates)
            /\ \A k \in DOMAIN checks : ~checks[k].is_relevant
    /\ ~sns_result.found => sns_result = NotFound

\* the first ranked candidate was judged not relevant, the second relevant
\* and returned
C20_Witness ==
  /\ epc = "returned"
  /\ ValidationOn
  /\ Len(sorted_candidates) = 2
  /\ Len(checks) = 2
  /\ ~checks[1].is_relevant
  /\ sns_result.found
  /\ sns_result.url = sorted_candidates[2].url
  /\ sns_result.url # sorted_candidates[1].url

\* C21. Validation skipped without question context: when the call was made
\* with no relevance checker or with an empty user_question and the ranked
\* list is not empty, it returns the first ranked candidate as found and
\* makes no relevance check.
C21_ValidationSkipped ==
  (epc = "returned" /\ sorted_candidates # << >>
     /\ (~relevance_checker \/ user_question = "")) =>
    /\ checks = << >>
    /\ sns_result.found
    /\ sns_result.url = sorted_candidates[1].url
    /\ sns_result.title = sorted_candidates[1].title
    /\ sns_result.platform = sorted_candidates[1].platform

\* a checker was passed with an empty question and two candidates were
\* ranked, the first one with a title the model would judge not relevant
C21_Witness ==
  /\ epc = "returned"
  /\ relevance_checker
  /\ user_question = ""
  /\ Len(sorted_candidates) = 2
  /\ sorted_candidates[1].title = "off_topic"
  /\ sns_result.found

\* C22. Relevance-filter failure policy: whenever the relevance check
\* itself fails for a candidate (the model call raises, or its output cannot
\* be parsed into a judgment), SNSRelevanceCheckAgent.act reports the
\* candidate as relevant and the call returns that candidate.
C22_FailurePolicy ==
  \A k \in DOMAIN checks :
     checks[k].reply \in {"raise", "malformed"} =>
       /\ checks[k].is_relevant
       /\ sns_result = Found(sorted_candidates[checks[k].position])

\* the part of C22 the code keeps: a model call that raises makes the
\* candidate relevant and returned
C22_RaisePolicy ==
  \A k \in DOMAIN checks :
     checks[k].reply = "raise" =>
       /\ checks[k].is_relevant
       /\ sns_result = Found(sorted_candidates[checks[k].position])

\* no web lookup of the call raised
NoLookupFailed == calls.sleep = 0 /\ last_web # "raise"

\* the fragment that tells the response generator not to echo the term
InstructionFragment(search_term) == << "instruction", search_term >>

\* what C23 says of a returned call of a TERM_SEARCH or GENERAL_TOPIC_SEARCH
\* turn: one web lookup, no discovery, a null candidate, the general
\* context, with the instruction fragment at its end under TERM_SEARCH only
IntentDispatched ==
  /\ calls.web = 1
  /\ calls.engine = 0
  /\ calls.relevance = 0
  /\ exec_result.candidate = NoneCandidate
  /\ GeneralTopicText(analysis_result.search_term, last_web) # << >>
  /\ exec_result.context =
       GeneralTopicText(analysis_result.search_term, last_web)
       \o (IF analysis_result.search_type = "TERM_SEARCH"
           THEN InstructionFragment(analysis_result.search_term) ELSE << >>)

\* C23 as stated. Intent dispatch: when no lookup fails, execute_search
\* under TERM_SEARCH makes exactly one general web lookup and returns a
\* context that ends with the do-not-echo fragment; under
\* GENERAL_TOPIC_SEARCH it makes exactly one lookup and returns the same
\* context without the fragment; the discovery engine is not invoked and
\* the candidate is None.
C23_IntentDispatchAsStated ==
  (Returned /\ NoLookupFailed
     /\ analysis_result.search_type \in {"TERM_SEARCH", "GENERAL_TOPIC_SEARCH"})
  => IntentDispatched

\* C23 amended. Intent dispatch as above, for an orchestrator that was
\* constructed with a SerpAPI key.
C23_IntentDispatch ==
  (Returned /\ NoLookupFailed /\ search_service # None
     /\ analysis_result.search_type \in {"TERM_SEARCH", "GENERAL_TOPIC_SEARCH"})
  => IntentDispatched

\* a TERM_SEARCH turn returned the context of an answer box with the
\* fragment at its end
C23_Witness ==
  /\ Returned
  /\ NoLookupFailed
  /\ search_service # None
  /\ analysis_result.search_type = "TERM_SEARCH"
  /\ analysis_result.search_term = "slang_meaning"
  /\ last_web = "answer_box"
  /\ Len(exec_result.context) = 7
  /\ exec_result.context[6] = "instruction"

\* C24 as stated. analyze_question invokes the question classifier exactly
\* once per call, for every user message and every classifier outcome, so
\* that the stored analysis is the result of that single call.
C24_ClassifiedOnce ==
  classifier_calls # NoClassifierCalls => classifier_calls.made = 1

\* the analysis that the outputs of one analyze_question call determine
AnalysisOf(outputs) ==
  IF outputs.term.needs_search
  THEN [search_type |-> "TERM_SEARCH",
        search_term |-> IF outputs.term.search_term \in {None, ""} THEN ""
                        ELSE "slang_meaning",
        is_media_requested |-> outputs.media]
  ELSE IF outputs.topic.needs_search
  THEN [search_type |-> IF outputs.topic.is_daily_life THEN "SNS_SEARCH"
                        ELSE "GENERAL_TOPIC_SEARCH",
        search_term |-> outputs.topic.search_term,
        is_media_requested |-> outputs.media]
  ELSE [search_type |-> "NO_SEARCH", search_term |-> None,
        is_media_requested |-> outputs.media]

\* C25. Fresh analysis per turn: the analysis execute_search uses is the one
\* the classifier outputs of the most recent analyze_question call
\* determine, whatever the turns before it stored; before the first
\* analyze_question call needs_search is false and execute_search returns
\* ("", None); execute_search never modifies the analysis.
C25_FreshAnalysis ==
  /\ [](/\ classifier_calls # NoClassifierCalls =>
             analysis_result = AnalysisOf(classifier_outputs)
        /\ classifier_calls = NoClassifierCalls =>
             /\ ~needs_search
             /\ opc # "idle" => (Returned /\ EmptyPair /\ ~exec_result.raised))
  /\ [][(opc # "idle" \/ opc' # "idle") =>
          analysis_result' = analysis_result]_vars

\* an analyze_question call that was not the first one stored NO_SEARCH and
\* the execute_search after it has returned
C25_Witness ==
  /\ Returned
  /\ classifier_outputs.superseding
  /\ analysis_result.search_type = "NO_SEARCH"
  /\ search_service # None
  /\ EmptyPair

\* C26 as stated. get_recent_conversation_turns(count) returns, in
\* original order, the last min(count, number of stored turns) turns: never
\* more than count entries for any count >= 0, all stored turns when fewer
\* than count exist, and [] when none are stored.
C26_RecentTurns ==
  (recent_call.called /\ recent_call.count >= 0) =>
    LET n == Len(recent_call.stored)
        m == Min(recent_call.count, n)
    IN /\ Len(recent_call.result) = m
       /\ Len(recent_call.result) <= recent_call.count
       /\ \A k \in 1 .. m :
            recent_call.result[k] = recent_call.stored[n - m + k]

\* the part of C26 the code keeps: the claim for every count >= 1
C26_RecentTurnsPositive ==
  (recent_call.called /\ recent_call.count >= 1) =>
    LET n == Len(recent_call.stored)
        m == Min(recent_call.count, n)
    IN /\ Len(recent_call.result) = m
       /\ \A k \in 1 .. m :
            recent_call.result[k] = recent_call.stored[n - m + k]

\* every web lookup of the call raised, and there was one
EveryLookupRaised == calls.web > 0 /\ calls.web_raised = calls.web

\* C27. Nested retry on the social fallback path: when the general web
\* lookup raises on every attempt and discovery is not-found, one
\* execute_search call under SNS_SEARCH runs the discovery engine exactly 2
\* times and the web lookup exactly 4 times before it returns ("", None);
\* under GENERAL_TOPIC_SEARCH or TERM_SEARCH the failing lookup is attempted
\* exactly 2 times.
C27_NestedRetry ==
  (Returned /\ EveryLookupRaised) =>
    /\ (analysis_result.search_type = "SNS_SEARCH" /\ DiscoveryNotFound) =>
         (calls.engine = 2 /\ calls.web = 4 /\ EmptyPair)
    /\ analysis_result.search_type \in {"GENERAL_TOPIC_SEARCH", "TERM_SEARCH"} =>
         (calls.engine = 0 /\ calls.web = 2 /\ EmptyPair)

\* an SNS_SEARCH call returned after four raising lookups and the three
\* waits between them
C27_Witness ==
  /\ Returned
  /\ analysis_result.search_type = "SNS_SEARCH"
  /\ DiscoveryNotFound
  /\ calls.web_raised = 4
  /\ calls.sleep = 3
  /\ calls.relevance > 0

\* C28. No provider key, no search: in an orchestrator constructed without
\* a SerpAPI key (search_service is None) execute_search returns ("", None)
\* for every search_type, without raising, without a retry wait, and without
\* a web lookup, a discovery-engine run or a relevance check.
C28_NoProviderKey ==
  (opc # "idle" /\ search_service = None) =>
    /\ calls.web = 0
    /\ calls.engine = 0
    /\ calls.provider = 0
    /\ calls.relevance = 0
    /\ calls.sleep = 0
    /\ ~exec_result.raised
    /\ Returned => (EmptyPair /\ ~strategy_exception)

\* a GENERAL_TOPIC_SEARCH turn with a query returned in an orchestrator
\* that has no search service
C28_Witness ==
  /\ Returned
  /\ search_service = None
  /\ analysis_result.search_type = "GENERAL_TOPIC_SEARCH"
  /\ analysis_result.search_term = "name_topic"
  /\ EmptyPair

\* the same for an SNS_SEARCH turn
C28_WitnessSns ==
  /\ Returned
  /\ search_service = None
  /\ analysis_result.search_type = "SNS_SEARCH"
  /\ EmptyPair

\* C29. Response-generation retry loop of run_app: per user turn the
\* conversation chain is invoked at most 3 times; a further attempt is made
\* only after an attempt that failed with an overload error; any other
\* error ends the loop after that attempt; and the loop terminates: every
\* iteration that does not leave the loop raises retry_count, which the
\* loop condition keeps below max_retries.
C29_RetryLoop ==
  /\ [](/\ invocations <= 3
        /\ retry_count <= max_retries
        /\ (last_outcome \notin {"none", "ok"}
               /\ ~(last_outcome \in {"overloaded_error", "status_529"}))
             => apc = "idle"
        /\ apc = "respond" => retry_count < max_retries)
  /\ [][/\ (invocations' = invocations + 1 /\ invocations > 0) =>
             last_outcome \in {"overloaded_error", "status_529"}
        /\ (apc = "respond" /\ apc' = "respond") =>
             retry_count' = retry_count + 1]_vars

\* the chain was invoked three times in one turn, each time answered by
\* an overload error, and the loop was left
C29_Witness ==
  /\ apc = "idle"
  /\ invocations = 3
  /\ retry_count = 3
  /\ last_outcome = "status_529"

\* the checks made on the candidates of future i
JudgedOf(i) == {k \in DOMAIN seq_judged : seq_judged[k].future = i}

\* C30. Sequential time windows of SnsSearchService: a fetch of the
\* unbounded window is submitted only after every submitted fetch of the
\* 6-month window has completed and every one of its candidates was judged
\* not relevant; once a relevant candidate is found in a window no fetch of
\* a later window is ever submitted.
C30_SequentialWindows ==
  /\ \A j \in SeqFutures :
       (SeqWindow(j) = 2 /\ seq_futures[j].state # "not_submitted") =>
         /\ seq_futures[1].state = "done"
         /\ \A i \in PeriodFutures(1) :
              /\ seq_futures[i].state = "done"
              /\ Cardinality(JudgedOf(i)) = Len(seq_futures[i].candidates)
              /\ \A k \in JudgedOf(i) : ~seq_judged[k].is_relevant
  /\ seq_result.found =>
       \A j \in SeqFutures :
          SeqWindow(j) > seq_result.window =>
            seq_futures[j].state = "not_submitted"

\* both fetches of the 6-month window returned a candidate, the video
\* search first, both were judged not relevant, and the image search of the
\* unbounded window is running
C30_Witness ==
  /\ seq_futures[3].state = "running"
  /\ Len(seq_futures[1].candidates) = 1
  /\ Len(seq_futures[2].candidates) = 1
  /\ Len(seq_judged) = 2
  /\ seq_judged[1].future = 2
  /\ ~seq_judged[1].is_relevant
  /\ ~seq_judged[2].is_relevant

\* a relevant candidate of the 6-month window was returned while the other
\* fetch of that window was still running
C30_WitnessFound ==
  /\ seq_pc = "shutdown"
  /\ seq_result.found
  /\ seq_result.window = 1
  /\ \E i \in PeriodFutures(1) : seq_futures[i].state = "running"

====
